---- MODULE Spec2Model ----
(***************************************************************************)
(* Model of the contacts backend's token service, auth gate                *)
(* (src/src/services/auth.py) and contact service                          *)
(* (src/src/services/contacts.py).                                         *)
(*                                                                         *)
(* Three specifications share the module:                                  *)
(*   SpecToken    - issuing, tampering with and presenting tokens          *)
(*   SpecContacts - non-interleaved contact-service calls                  *)
(*   SpecRace     - concurrent create_contact calls, split at their awaits *)
(*                                                                         *)
(* The clock is the wall clock in whole seconds: python-jose encodes       *)
(* datetime claims with timegm(utctimetuple()) and compares `exp` with the *)
(* current time taken the same way, so every time the code can observe is  *)
(* a whole second.                                                         *)
(***************************************************************************)
EXTENDS Integers, FiniteSets, Sequences, TLC

VARIABLES
    now,        \* wall clock, whole seconds
    ticks,      \* number of times the clock has been advanced (bounded)
    token,      \* the bearer / email token currently in the client's hands
    origin,     \* which issuer produced `token`: "none", "access", "email"
    call,       \* the last issue_* call: its inputs, clock reads and effects
    result,     \* the get_current_user / get_email_from_token call made at this instant
    contacts,   \* the contacts table: set of rows [id, owner, email, phone]
    nextId,     \* the table's next primary key
    lastOp,     \* the last contact-service call, the table before it, its outcome
    pc,         \* SpecRace: position of each concurrent create_contact call
    req,        \* SpecRace: each call's arguments
    seen,       \* SpecRace: what each call's is_contact_exists returned
    ret         \* SpecRace: what each call returned or raised

tokenVars   == <<now, ticks, token, origin, call, result>>
contactVars == <<contacts, nextId, lastOp>>
raceVars    == <<pc, req, seen, ret>>
vars        == <<now, ticks, token, origin, call, result,
                 contacts, nextId, lastOp, pc, req, seen, ret>>

----------------------------------------------------------------------------
(* Bounds of the model *)

MaxTicks == 2       \* clock advances per behaviour
MaxTtl   == 1       \* largest ttl_seconds a caller passes explicitly
MaxDrift == 1       \* seconds the clock may move between two reads in one call
MaxId    == 2       \* rows ever inserted into the contacts table
NumProcs == 2       \* concurrent create_contact calls

----------------------------------------------------------------------------
(* Program constants *)

SevenDays               == 604800   \* timedelta(days=7)
HTTP_400_BAD_REQUEST    == 400
HTTP_401_UNAUTHORIZED   == 401
HTTP_404_NOT_FOUND      == 404
HTTP_422_UNPROCESSABLE_ENTITY == 422
JWT_EXPIRATION_SECONDS  == 3600     \* settings.JWT_EXPIRATION_SECONDS

----------------------------------------------------------------------------
(* Dictionaries (claim sets) *)

EmptyDict == [k \in {} |-> 0]

\* dict.copy(): a new dictionary with the same items
DictCopy(d) == [k \in DOMAIN d |-> d[k]]

\* dict.update({k: v}) on dictionary d
DictUpdate(d, k, v) == [x \in (DOMAIN d) \cup {k} |-> IF x = k THEN v ELSE d[x]]

\* dict.update({"iat": a, "exp": b})
DictUpdate2(d, k1, v1, k2, v2) == DictUpdate(DictUpdate(d, k1, v1), k2, v2)

----------------------------------------------------------------------------
(* Inputs *)

Usernames  == {"alice", "bob"}            \* the users the directory holds
Subjects   == Usernames \cup {"ghost"}    \* "ghost" matches no user
CallerExps == {0}                         \* an `exp` the caller put in `data`

\* The `data` mappings callers pass: with or without `sub`, with or without `exp`
DataInputs ==
    { EmptyDict }
    \cup { DictUpdate(EmptyDict, "sub", s) : s \in Subjects }
    \cup { DictUpdate(EmptyDict, "exp", e) : e \in CallerExps }
    \cup { DictUpdate(DictUpdate(EmptyDict, "sub", s), "exp", e) :
             s \in Subjects, e \in CallerExps }

\* Optional[int]: None, or an integer
NoTtl    == [given |-> FALSE, secs |-> 0]
Ttl(s)   == [given |-> TRUE, secs |-> s]
TtlInputs == {NoTtl} \cup { Ttl(s) : s \in 0..MaxTtl }

\* Python truthiness of an Optional[int]: None and 0 are falsy
Truthy(opt) == opt.given /\ opt.secs # 0

Advances == {1, JWT_EXPIRATION_SECONDS, SevenDays}

----------------------------------------------------------------------------
(* python-jose *)

\* jwt.encode(claims, settings.JWT_SECRET, algorithm): a token signed with the
\* process secret that carries the claims
jwt_encode(claims) == [claims |-> claims, sig |-> "valid"]

MalformedToken == [claims |-> EmptyDict, sig |-> "malformed"]

JWTErrorRaised == [ok |-> FALSE, claims |-> EmptyDict]

\* jwt.decode(token, settings.JWT_SECRET, algorithms=[...]) at time t: JWTError
\* when the token is malformed or its signature does not verify, or when it
\* carries `exp` and exp < now (ExpiredSignatureError is a JWTError); otherwise
\* the claims
jwt_decode(tok, t) ==
    IF tok.sig # "valid" THEN JWTErrorRaised
    ELSE IF "exp" \in DOMAIN tok.claims /\ tok.claims["exp"] < t THEN JWTErrorRaised
    ELSE [ok |-> TRUE, claims |-> tok.claims]

----------------------------------------------------------------------------
(* Outcomes of the auth functions *)

NoOutcome == [raised |-> "none", status_code |-> 0, headers |-> "", value |-> ""]

Returned(v) == [raised |-> "none", status_code |-> 0, headers |-> "", value |-> v]

\* credentials_exception, auth.py lines 62-66
credentials_exception ==
    [raised |-> "HTTPException", status_code |-> HTTP_401_UNAUTHORIZED,
     headers |-> "WWW-Authenticate: Bearer", value |-> ""]

\* the HTTPException of auth.py lines 123-126
email_token_exception ==
    [raised |-> "HTTPException", status_code |-> HTTP_422_UNPROCESSABLE_ENTITY,
     headers |-> "", value |-> ""]

\* payload["sub"] on a payload without the key: KeyError, which is no JWTError
\* and no HTTPException, so it leaves the function unhandled
KeyErrorRaised ==
    [raised |-> "KeyError", status_code |-> 0, headers |-> "", value |-> ""]

\* UserService.get_user_by_username: the user, or None
get_user_by_username(username) ==
    IF username \in Usernames
    THEN [found |-> TRUE, username |-> username]
    ELSE [found |-> FALSE, username |-> ""]

----------------------------------------------------------------------------
(* Token service and auth gate, src/src/services/auth.py *)

\* create_access_token with `to_encode = data` in place of `data.copy()`: the
\* update lands in the caller's mapping
create_access_token_aliased(data, expires_delta, t) ==
    LET expire  == IF Truthy(expires_delta)
                   THEN t + expires_delta.secs
                   ELSE t + JWT_EXPIRATION_SECONDS
        encoded == DictUpdate(data, "exp", expire)
    IN  [data |-> encoded, expire |-> expire, token |-> jwt_encode(encoded)]

\* create_access_token(data, expires_delta) reading the clock at t.
\* `data` is what the caller's mapping holds after the call.
create_access_token(data, expires_delta, t) ==
    LET to_encode == DictCopy(data)
        expire    == IF Truthy(expires_delta)
                     THEN t + expires_delta.secs
                     ELSE t + JWT_EXPIRATION_SECONDS
        encoded   == DictUpdate(to_encode, "exp", expire)
    IN  [data |-> data, expire |-> expire, token |-> jwt_encode(encoded)]

\* create_email_token(data): the clock is read twice, at t1 for `expire` and at
\* t2 for `iat`
create_email_token(data, t1, t2) ==
    LET to_encode == DictCopy(data)
        expire    == t1 + SevenDays
        encoded   == DictUpdate2(to_encode, "iat", t2, "exp", expire)
    IN  [data |-> data, expire |-> expire, token |-> jwt_encode(encoded)]

\* get_current_user that accepts session tokens only: a token carrying `iat`
\* (an email-verification token) is refused
get_current_user_access_only(tok, t) ==
    LET decoded == jwt_decode(tok, t) IN
    IF ~decoded.ok THEN credentials_exception
    ELSE IF "iat" \in DOMAIN decoded.claims THEN credentials_exception
    ELSE IF "sub" \notin DOMAIN decoded.claims THEN KeyErrorRaised
    ELSE LET user == get_user_by_username(decoded.claims["sub"]) IN
         IF ~user.found THEN credentials_exception
         ELSE Returned(user.username)

\* get_current_user(token, db) at time t.  The `username is None` test of
\* line 74 never fires: payload["sub"] raises KeyError when the key is absent,
\* and python-jose refuses a `sub` that is no string with a JWTError.
get_current_user(tok, t) ==
    LET decoded == jwt_decode(tok, t) IN
    IF ~decoded.ok THEN credentials_exception              \* except JWTError
    ELSE IF "sub" \notin DOMAIN decoded.claims THEN KeyErrorRaised
    ELSE LET user == get_user_by_username(decoded.claims["sub"]) IN
         IF ~user.found THEN credentials_exception
         ELSE Returned(user.username)

\* get_email_from_token(token) at time t
get_email_from_token(tok, t) ==
    LET decoded == jwt_decode(tok, t) IN
    IF ~decoded.ok THEN email_token_exception              \* except JWTError
    ELSE IF "sub" \notin DOMAIN decoded.claims THEN KeyErrorRaised
    ELSE Returned(decoded.claims["sub"])

----------------------------------------------------------------------------
(* SpecToken *)

\* a token-service step touches neither the contacts table nor the requests
TokenFrame == UNCHANGED <<contacts, nextId, lastOp, pc, req, seen, ret>>

NoCall ==
    [op |-> "none", data |-> EmptyDict, dataAfter |-> EmptyDict, ttl |-> NoTtl,
     at |-> 0, at2 |-> 0, expire |-> 0, token |-> MalformedToken]

NoResult ==
    [op |-> "none", at |-> 0, token |-> MalformedToken, origin |-> "none",
     outcome |-> NoOutcome]

TokenInit ==
    /\ now = 0
    /\ ticks = 0
    /\ token = MalformedToken
    /\ origin = "none"
    /\ call = NoCall
    /\ result = NoResult

IssueAccessToken ==
    \E data \in DataInputs, ttl \in TtlInputs :
        LET r == create_access_token(data, ttl, now) IN
        /\ call' = [op |-> "access", data |-> data, dataAfter |-> r.data,
                    ttl |-> ttl, at |-> now, at2 |-> now, expire |-> r.expire,
                    token |-> r.token]
        /\ token' = r.token
        /\ origin' = "access"
        /\ result' = NoResult
        /\ UNCHANGED <<now, ticks>>
        /\ TokenFrame

IssueEmailToken ==
    \E data \in DataInputs, drift \in 0..MaxDrift :
        LET r == create_email_token(data, now, now + drift) IN
        /\ drift > 0 => ticks < MaxTicks
        /\ call' = [op |-> "email", data |-> data, dataAfter |-> r.data,
                    ttl |-> NoTtl, at |-> now, at2 |-> now + drift,
                    expire |-> r.expire, token |-> r.token]
        /\ token' = r.token
        /\ origin' = "email"
        /\ result' = NoResult
        /\ now' = now + drift
        /\ ticks' = IF drift > 0 THEN ticks + 1 ELSE ticks
        /\ TokenFrame

\* The holder alters the token: the signature no longer verifies
TamperToken ==
    /\ token.sig = "valid"
    /\ token' = [token EXCEPT !.sig = "tampered"]
    /\ result' = NoResult
    /\ UNCHANGED <<now, ticks, origin, call>>
    /\ TokenFrame

\* The client presents a string that is no JWT
PresentMalformed ==
    /\ token # MalformedToken
    /\ token' = MalformedToken
    /\ origin' = "none"
    /\ result' = NoResult
    /\ UNCHANGED <<now, ticks, call>>
    /\ TokenFrame

AdvanceClock ==
    \E d \in Advances :
        /\ ticks < MaxTicks
        /\ now' = now + d
        /\ ticks' = ticks + 1
        /\ result' = NoResult
        /\ UNCHANGED <<token, origin, call>>
        /\ TokenFrame

GetCurrentUser ==
    /\ result' = [op |-> "gate", at |-> now, token |-> token, origin |-> origin,
                  outcome |-> get_current_user(token, now)]
    /\ UNCHANGED <<now, ticks, token, origin, call>>
    /\ TokenFrame

GetEmailFromToken ==
    /\ result' = [op |-> "resolve", at |-> now, token |-> token, origin |-> origin,
                  outcome |-> get_email_from_token(token, now)]
    /\ UNCHANGED <<now, ticks, token, origin, call>>
    /\ TokenFrame

----------------------------------------------------------------------------
(* Contact repository (src/repository/contacts.py): ownership-scoped CRUD *)

Emails == {"a@x.com", "b@x.com"}
Phones == {"111", "222"}
Bodies == [email : Emails, phone : Phones]      \* ContactModel
Ids    == 1..MaxId
Procs  == 1..NumProcs

NoRow == [id |-> 0, owner |-> "", email |-> "", phone |-> ""]

\* rows of `store` with this id that belong to `user`
Owned(store, id, user) == { c \in store : c.id = id /\ c.owner = user }

\* ContactRepository.is_contact_exists(email, phone, user)
is_contact_exists(store, email, phone, user) ==
    \E c \in store : c.owner = user /\ (c.email = email \/ c.phone = phone)

\* ContactRepository.create_contact(body, user): inserts a row, returns it
repository_create_contact(store, nid, body, user) ==
    LET row == [id |-> nid, owner |-> user, email |-> body.email,
                phone |-> body.phone]
    IN  [store |-> store \cup {row}, nextId |-> nid + 1, row |-> row]

\* ContactRepository.get_contact_by_id(contact_id, user): the row, or None
repository_get_contact_by_id(store, id, user) ==
    IF Owned(store, id, user) = {} THEN NoRow
    ELSE CHOOSE c \in Owned(store, id, user) : TRUE

\* ContactRepository.update_contact(contact_id, body, user): rewrites the row's
\* fields from body and returns it, or None when no row matches
repository_update_contact(store, id, body, user) ==
    LET old == repository_get_contact_by_id(store, id, user)
        new == [old EXCEPT !.email = body.email, !.phone = body.phone]
    IN  IF old = NoRow THEN [store |-> store, row |-> NoRow]
        ELSE [store |-> (store \ {old}) \cup {new}, row |-> new]

\* ContactRepository.remove_contact(contact_id, user): deletes the row and
\* returns it, or None when no row matches
repository_remove_contact(store, id, user) ==
    LET old == repository_get_contact_by_id(store, id, user)
    IN  IF old = NoRow THEN [store |-> store, row |-> NoRow]
        ELSE [store |-> store \ {old}, row |-> old]

----------------------------------------------------------------------------
(* Contact service, src/src/services/contacts.py *)

NoContactOutcome == [raised |-> "none", status_code |-> 0, contact |-> NoRow]

ReturnedContact(row) == [raised |-> "none", status_code |-> 0, contact |-> row]

DuplicateContact ==
    [raised |-> "HTTPException", status_code |-> HTTP_400_BAD_REQUEST,
     contact |-> NoRow]

ContactNotFound ==
    [raised |-> "HTTPException", status_code |-> HTTP_404_NOT_FOUND,
     contact |-> NoRow]

\* create_contact that inserts whatever the existence query answered
create_contact_unchecked(exists, store, nid, body, user) ==
    LET r == repository_create_contact(store, nid, body, user)
    IN  [store |-> r.store, nextId |-> r.nextId,
         outcome |-> ReturnedContact(r.row)]

\* create_contact from the point where `await is_contact_exists(...)` has
\* returned `exists`: lines 20-26
create_contact_after_check(exists, store, nid, body, user) ==
    IF exists
    THEN [store |-> store, nextId |-> nid, outcome |-> DuplicateContact]
    ELSE LET r == repository_create_contact(store, nid, body, user)
         IN  [store |-> r.store, nextId |-> r.nextId,
              outcome |-> ReturnedContact(r.row)]

\* create_contact that skips the existence query
create_contact_no_check(store, nid, body, user) ==
    create_contact_after_check(FALSE, store, nid, body, user)

\* create_contact(body, user) run without interleaving
create_contact(store, nid, body, user) ==
    create_contact_after_check(
        is_contact_exists(store, body.email, body.phone, user),
        store, nid, body, user)

\* get_contact(contact_id, user)
get_contact(store, id, user) ==
    LET contact == repository_get_contact_by_id(store, id, user)
    IN  IF contact = NoRow
        THEN [store |-> store, outcome |-> ContactNotFound]
        ELSE [store |-> store, outcome |-> ReturnedContact(contact)]

\* update_contact without the `is None` test: the repository's None is returned
update_contact_no_none_test(store, id, body, user) ==
    LET r == repository_update_contact(store, id, body, user)
    IN  [store |-> r.store, outcome |-> ReturnedContact(r.row)]

\* update_contact(contact_id, body, user)
update_contact(store, id, body, user) ==
    LET r == repository_update_contact(store, id, body, user)
    IN  IF r.row = NoRow
        THEN [store |-> r.store, outcome |-> ContactNotFound]
        ELSE [store |-> r.store, outcome |-> ReturnedContact(r.row)]

\* remove_contact(contact_id, user)
remove_contact(store, id, user) ==
    LET r == repository_remove_contact(store, id, user)
    IN  IF r.row = NoRow
        THEN [store |-> r.store, outcome |-> ContactNotFound]
        ELSE [store |-> r.store, outcome |-> ReturnedContact(r.row)]

----------------------------------------------------------------------------
(* SpecContacts: calls that run one after the other *)

\* a contact-service step touches neither the tokens nor the concurrent requests
ContactsFrame == UNCHANGED <<now, ticks, token, origin, call, result, pc, req, seen, ret>>

NoBody == [email |-> "", phone |-> ""]

NoOp ==
    [op |-> "none", user |-> "", id |-> 0, body |-> NoBody, before |-> {},
     outcome |-> NoContactOutcome]

ContactsInit ==
    /\ contacts = {}
    /\ nextId = 1
    /\ lastOp = NoOp

CreateContact ==
    \E user \in Usernames, body \in Bodies :
        LET r == create_contact(contacts, nextId, body, user) IN
        /\ r.nextId <= MaxId + 1     \* the table holds at most MaxId rows
        /\ contacts' = r.store
        /\ nextId' = r.nextId
        /\ lastOp' = [op |-> "create", user |-> user, id |-> 0, body |-> body,
                      before |-> contacts, outcome |-> r.outcome]
        /\ ContactsFrame

GetContact ==
    \E user \in Usernames, id \in Ids :
        LET r == get_contact(contacts, id, user) IN
        /\ contacts' = r.store
        /\ lastOp' = [op |-> "get", user |-> user, id |-> id, body |-> NoBody,
                      before |-> contacts, outcome |-> r.outcome]
        /\ UNCHANGED nextId
        /\ ContactsFrame

UpdateContact ==
    \E user \in Usernames, id \in Ids, body \in Bodies :
        LET r == update_contact(contacts, id, body, user) IN
        /\ contacts' = r.store
        /\ lastOp' = [op |-> "update", user |-> user, id |-> id, body |-> body,
                      before |-> contacts, outcome |-> r.outcome]
        /\ UNCHANGED nextId
        /\ ContactsFrame

RemoveContact ==
    \E user \in Usernames, id \in Ids :
        LET r == remove_contact(contacts, id, user) IN
        /\ contacts' = r.store
        /\ lastOp' = [op |-> "remove", user |-> user, id |-> id, body |-> NoBody,
                      before |-> contacts, outcome |-> r.outcome]
        /\ UNCHANGED nextId
        /\ ContactsFrame

----------------------------------------------------------------------------
(* SpecRace: create_contact calls of concurrent requests.  Each call         *)
(* suspends at `await is_contact_exists` and at `await create_contact`.     *)

NoReq == [user |-> "", body |-> NoBody]

RaceFrame == UNCHANGED <<now, ticks, token, origin, call, result, lastOp>>

RaceInit ==
    /\ pc = [p \in Procs |-> "idle"]
    /\ req = [p \in Procs |-> NoReq]
    /\ seen = [p \in Procs |-> FALSE]
    /\ ret = [p \in Procs |-> NoContactOutcome]

\* a request arrives and calls create_contact(body, user)
RaceCall(p) ==
    \E user \in Usernames, body \in Bodies :
        /\ pc[p] = "idle"
        /\ req' = [req EXCEPT ![p] = [user |-> user, body |-> body]]
        /\ pc' = [pc EXCEPT ![p] = "await_exists"]
        /\ UNCHANGED <<seen, ret, contacts, nextId>>
        /\ RaceFrame

\* the existence query runs against the table as it is now
RaceCheck(p) ==
    /\ pc[p] = "await_exists"
    /\ seen' = [seen EXCEPT ![p] =
                   is_contact_exists(contacts, req[p].body.email,
                                     req[p].body.phone, req[p].user)]
    /\ pc' = [pc EXCEPT ![p] = "checked"]
    /\ UNCHANGED <<req, ret, contacts, nextId>>
    /\ RaceFrame

\* the call resumes with the query's answer: raises, or inserts and returns
RaceFinish(p) ==
    LET r == create_contact_after_check(seen[p], contacts, nextId,
                                        req[p].body, req[p].user) IN
    /\ pc[p] = "checked"
    /\ contacts' = r.store
    /\ nextId' = r.nextId
    /\ ret' = [ret EXCEPT ![p] = r.outcome]
    /\ pc' = [pc EXCEPT ![p] = "done"]
    /\ UNCHANGED <<req, seen>>
    /\ RaceFrame

----------------------------------------------------------------------------
(* Specifications *)

TokenNext ==
    \/ IssueAccessToken
    \/ IssueEmailToken
    \/ TamperToken
    \/ PresentMalformed
    \/ AdvanceClock
    \/ GetCurrentUser
    \/ GetEmailFromToken

ContactsNext ==
    \/ CreateContact
    \/ GetContact
    \/ UpdateContact
    \/ RemoveContact

RaceNext ==
    \/ \E p \in Procs : RaceCall(p)
    \/ \E p \in Procs : RaceCheck(p)
    \/ \E p \in Procs : RaceFinish(p)

Init == TokenInit /\ ContactsInit /\ RaceInit

SpecToken    == Init /\ [][TokenNext]_vars

SpecContacts == Init /\ [][ContactsNext]_vars

SpecRace     == Init /\ [][RaceNext]_vars

----------------------------------------------------------------------------
(* Properties of the token service and the auth gate (SpecToken) *)

HasSub(tok)      == "sub" \in DOMAIN tok.claims
Expired(tok, t)  == tok.sig = "valid" /\ "exp" \in DOMAIN tok.claims
                    /\ tok.claims["exp"] < t
Live(tok, t)     == tok.sig = "valid" /\ ~Expired(tok, t)

\* C1: the auth gate answers each of an expired token, a token with a tampered
\* signature, a live signed token without `sub`, and a live signed token whose
\* `sub` matches no user with the same 401 + WWW-Authenticate failure.
C1_GateRejectsAllFourAlike ==
    result.op = "gate" =>
        LET tok == result.token
            t   == result.at
        IN  ( \/ Expired(tok, t)
              \/ tok.sig = "tampered"
              \/ Live(tok, t) /\ ~HasSub(tok)
              \/ Live(tok, t) /\ HasSub(tok) /\ tok.claims["sub"] \notin Usernames )
            => result.outcome = credentials_exception

\* C5: a ttl_seconds T passed to create_access_token (0 included) gives
\* exp = issue time + T, the default lifetime is used only when no ttl is
\* passed, and the token decodes while fewer than T seconds have elapsed and
\* no longer decodes once more than T seconds have elapsed.
C5_TtlHonoured ==
    call.op = "access" =>
        /\ call.ttl.given => call.token.claims["exp"] = call.at + call.ttl.secs
        /\ ~call.ttl.given =>
               call.token.claims["exp"] = call.at + JWT_EXPIRATION_SECONDS
        /\ (call.ttl.given /\ result.op = "resolve" /\ result.token = call.token)
              => /\ result.at - call.at < call.ttl.secs
                      => result.outcome # email_token_exception
                 /\ result.at - call.at > call.ttl.secs
                      => result.outcome = email_token_exception

\* C6: every token of create_email_token carries iat and exp with iat < exp
\* and exp - iat = 7 days, also when the clock moves between the two reads.
C6_EmailTokenSevenDays ==
    call.op = "email" =>
        /\ {"iat", "exp"} \subseteq DOMAIN call.token.claims
        /\ call.token.claims["iat"] < call.token.claims["exp"]
        /\ call.token.claims["exp"] - call.token.claims["iat"] = SevenDays

\* C7: get_email_from_token returns `sub` for a live signed token that has one
\* and fails with the 422 HTTPException in every other case.
C7_ResolveSubjectOr422 ==
    result.op = "resolve" =>
        IF Live(result.token, result.at) /\ HasSub(result.token)
        THEN result.outcome = Returned(result.token.claims["sub"])
        ELSE result.outcome = email_token_exception

\* C9: create_access_token leaves the caller's mapping as it was, and the
\* token's claims are the caller's claims with `exp` set to the computed
\* expiry, whatever `exp` the caller supplied.
C9_AccessTokenNoSideEffect ==
    call.op = "access" =>
        /\ call.dataAfter = call.data
        /\ DOMAIN call.token.claims = (DOMAIN call.data) \cup {"exp"}
        /\ call.token.claims["exp"] = call.expire
        /\ \A k \in (DOMAIN call.data) \ {"exp"} :
               call.token.claims[k] = call.data[k]

\* an access token was issued from a mapping that already held `exp`
C9_Witness ==
    /\ call.op = "access"
    /\ "exp" \in DOMAIN call.data
    /\ "sub" \in DOMAIN call.data
    /\ call.token.claims["exp"] # call.data["exp"]

\* C10: a live token signed with the process secret whose `sub` is a user's
\* username authenticates as that user at the auth gate, and
\* get_email_from_token returns the `sub` of any live signed token that has
\* one, whichever of the two issuers produced the token.
C10_VariantsNotDistinguished ==
    /\ ( /\ result.op = "gate"
         /\ Live(result.token, result.at)
         /\ HasSub(result.token)
         /\ result.token.claims["sub"] \in Usernames )
       => result.outcome = Returned(result.token.claims["sub"])
    /\ ( /\ result.op = "resolve"
         /\ Live(result.token, result.at)
         /\ HasSub(result.token) )
       => result.outcome = Returned(result.token.claims["sub"])

\* the auth gate authenticated a user from an email-verification token
C10_Witness ==
    /\ result.op = "gate"
    /\ result.origin = "email"
    /\ "iat" \in DOMAIN result.token.claims
    /\ result.outcome = Returned("bob")

----------------------------------------------------------------------------
(* Properties of the contact service (SpecContacts) *)

Collides(store, body, user) ==
    \E c \in store : c.owner = user
                     /\ (c.email = body.email \/ c.phone = body.phone)

\* C2: create_contact(body, U) fails with the 400 DuplicateContact exactly when
\* a stored contact of U has the same email or the same phone; other users'
\* contacts never make it fail; otherwise it stores the contact for U.
C2_CreateFailsIffDuplicate ==
    lastOp.op = "create" =>
        LET dup == Collides(lastOp.before, lastOp.body, lastOp.user)
            c   == lastOp.outcome.contact
        IN  /\ lastOp.outcome = DuplicateContact <=> dup
            /\ dup => contacts = lastOp.before
            /\ ~dup => /\ lastOp.outcome.raised = "none"
                       /\ c.owner = lastOp.user
                       /\ c.email = lastOp.body.email
                       /\ c.phone = lastOp.body.phone
                       /\ c \notin lastOp.before
                       /\ contacts = lastOp.before \cup {c}

\* a create succeeded although another user holds the same email and phone
C2_Witness ==
    /\ lastOp.op = "create"
    /\ lastOp.outcome.raised = "none"
    /\ \E c \in lastOp.before :
           /\ c.owner # lastOp.user
           /\ c.email = lastOp.body.email
           /\ c.phone = lastOp.body.phone

\* C3: no two distinct stored contacts of one user have the same email and
\* phone, after any sequence of create, update and remove calls.
C3_UniqueEmailPhonePerUser ==
    \A c1, c2 \in contacts :
        (c1.id # c2.id /\ c1.owner = c2.owner)
            => ~(c1.email = c2.email /\ c1.phone = c2.phone)

\* C4: get_contact, update_contact and remove_contact with an id that is not
\* stored, or stored for another user, fail with the 404 ContactNotFound and
\* leave the table as it was.
C4_NotFoundLeavesStore ==
    ( /\ lastOp.op \in {"get", "update", "remove"}
      /\ Owned(lastOp.before, lastOp.id, lastOp.user) = {} )
    => /\ lastOp.outcome = ContactNotFound
       /\ contacts = lastOp.before

\* an update aimed at a contact that another user owns
C4_Witness ==
    /\ lastOp.op = "update"
    /\ lastOp.outcome = ContactNotFound
    /\ \E c \in lastOp.before : c.id = lastOp.id /\ c.owner # lastOp.user

----------------------------------------------------------------------------
(* Properties of concurrent create_contact calls (SpecRace) *)

Succeeded(p) == pc[p] = "done" /\ ret[p].raised = "none"

\* C8: whatever the interleaving of concurrent create_contact calls, a call
\* whose existence query found a collision raises and inserts nothing, every
\* other call's contact is stored with the caller as owner and the body's
\* email and phone, and the table holds exactly one row per successful call:
\* nothing is lost, altered or attributed to another user.  (That two calls of
\* one user with one email can both pass the query and both insert is the
\* state C8_Witness.)
C8_RaceOnlyDuplicates ==
    /\ \A p \in Procs : pc[p] = "done" =>
          /\ seen[p] => ret[p] = DuplicateContact
          /\ ~seen[p] =>
                /\ ret[p].raised = "none"
                /\ ret[p].contact \in contacts
                /\ ret[p].contact.owner = req[p].user
                /\ ret[p].contact.email = req[p].body.email
                /\ ret[p].contact.phone = req[p].body.phone
    /\ \A c \in contacts : \E p \in Procs : Succeeded(p) /\ ret[p].contact = c
    /\ \A c1, c2 \in contacts : c1.id = c2.id => c1 = c2
    /\ Cardinality(contacts) = Cardinality({p \in Procs : Succeeded(p)})

\* two calls of one user with the same email both succeeded and the table
\* holds both rows
C8_Witness ==
    \E p, q \in Procs :
        /\ p # q
        /\ Succeeded(p) /\ Succeeded(q)
        /\ req[p].user = req[q].user
        /\ req[p].body.email = req[q].body.email
        /\ \E c1, c2 \in contacts :
               /\ c1.id # c2.id
               /\ c1.owner = req[p].user /\ c2.owner = req[p].user
               /\ c1.email = c2.email

====
